---------------------------- MODULE Spec2Model ----------------------------
(***************************************************************************)
(* Model of the dispatch-and-fallback layer of ethicist_mcp/server.py:     *)
(* the tool dispatcher (call_tool), the completion gateway                 *)
(* (_get_openai_client, _generate_openai_response) and the resource        *)
(* resolver (read_resource).                                               *)
(*                                                                         *)
(* Representation of Python values.  Every value is a record tagged by its *)
(* type in field t.  A str is a sequence of tokens: a token is either a    *)
(* whitespace character, a single visible character, or an opaque chunk of *)
(* visible text (a caller-supplied phrase or a literal fragment of a       *)
(* template).  Concatenation and f-string interpolation are \o on token    *)
(* sequences; "text contains s" is "some token of text equals s".          *)
(***************************************************************************)
EXTENDS Integers, Sequences, FiniteSets, TLC

(***************************************************************************)
(* Bounds                                                                  *)
(***************************************************************************)
\* longest text, in tokens, the completion endpoint returns in the model
MaxContentLen == 3
\* most tool calls suspended at the completion call at one time
MaxInFlight == 2

(***************************************************************************)
(* Python values                                                           *)
(***************************************************************************)
\* the key is not in the arguments mapping
Absent == [t |-> "absent"]
PyNone == [t |-> "None"]
PyStr(toks) == [t |-> "str", s |-> toks]
PyInt(n) == [t |-> "int", n |-> n]
PyList(elems) == [t |-> "list", l |-> elems]
\* a str of one opaque chunk
Word(w) == PyStr(<<w>>)
EmptyStr == PyStr(<<>>)

IsNone(v) == v.t = "None"

\* bool(v)
Truthy(v) ==
    CASE v.t = "None" -> FALSE
      [] v.t = "str" -> Len(v.s) > 0
      [] v.t = "int" -> v.n # 0
      [] v.t = "list" -> Len(v.l) > 0
      [] v.t = "dict" -> \E k \in DOMAIN v.d : v.d[k].t # "absent"
      [] OTHER -> TRUE

\* whether iter(v) succeeds (str arguments in list positions are not among
\* the inputs of the model)
Iterable(v) == v.t = "list"

\* whether hash(v) succeeds
Hashable(v) == v.t # "list"

\* the tokens "{v}" contributes to an f-string
Fmt(v) ==
    CASE v.t = "str" -> v.s
      [] v.t = "None" -> <<"None">>
      [] v.t = "int" -> IF v.n = 0 THEN <<"0">> ELSE <<"5">>
      [] OTHER -> <<"<repr>">>

Whitespace == {" ", "\n"}

RECURSIVE lstrip(_)
lstrip(s) ==
    IF s = <<>> THEN <<>>
    ELSE IF Head(s) \in Whitespace THEN lstrip(Tail(s)) ELSE s

RECURSIVE rstrip(_)
rstrip(s) ==
    IF s = <<>> THEN <<>>
    ELSE IF s[Len(s)] \in Whitespace THEN rstrip(SubSeq(s, 1, Len(s) - 1))
         ELSE s

\* mutant of strip: trailing whitespace is kept
strip_leading_only(s) == lstrip(s)

\* str.strip()
strip(s) == rstrip(lstrip(s))

Contains(text, tok) == \E i \in DOMAIN text : text[i] = tok

\* sep.join(parts) for a sequence of token sequences
RECURSIVE Join(_, _)
Join(sep, parts) ==
    IF parts = <<>> THEN <<>>
    ELSE IF Len(parts) = 1 THEN parts[1]
         ELSE parts[1] \o <<sep>> \o Join(sep, Tail(parts))

(***************************************************************************)
(* Knowledge base                                                          *)
(***************************************************************************)
FrameworkKeys == <<"utilitarian", "deontological", "virtue", "social_contract">>

ETHICAL_FRAMEWORKS ==
    [utilitarian |->
        [name |-> "Utilitarian Ethics",
         description |-> "Focuses on maximising overall happiness and well-being",
         key_principles |-> <<"Greatest good for the greatest number",
                              "Consequences matter most",
                              "Impartial consideration of all affected parties">>],
     deontological |->
        [name |-> "Deontological Ethics",
         description |-> "Emphasizes duties, rules, and moral obligations",
         key_principles |-> <<"Act according to universal moral laws",
                              "Respect human dignity and autonomy",
                              "Intentions matter more than consequences">>],
     virtue |->
        [name |-> "Virtue Ethics",
         description |-> "Focuses on character development and moral virtues",
         key_principles |-> <<"Cultivate good character traits",
                              "Act as a virtuous person would",
                              "Balance and moderation in all things">>],
     social_contract |->
        [name |-> "Social Contract Theory",
         description |-> "Centers on fairness and mutual justification grounded in Rawlsian contractualism and Scanlonian contractarianism",
         key_principles |-> <<"Select principles that would be chosen under fair conditions, such as Rawls's veil of ignorance",
                              "Ensure decisions can be justified to every affected party, following Scanlon's notion of reasonable rejection",
                              "Promote equitable institutions and uphold agreed-upon obligations">>]]

\* (key, value) pairs in the order of the dict literal
AI_ETHICS_GUIDELINES ==
    << <<"fairness", "Ensure AI systems treat all individuals and groups equitably without bias">>,
       <<"transparency", "Make AI decision-making processes understandable and explainable">>,
       <<"accountability", "Establish clear responsibility for AI system outcomes">>,
       <<"privacy", "Protect individual data and respect privacy rights">>,
       <<"safety", "Ensure AI systems are secure, reliable, and do not cause harm">>,
       <<"human_autonomy", "Preserve human agency and decision-making authority">>,
       <<"beneficence", "Design AI to benefit humanity and individual well-being">>,
       <<"sustainability", "Consider long-term environmental and social impacts">> >>

\* the entries of the table, each reduced to its name and origin fields (the
\* last entry has no origin)
RESPONSIBLE_AI_FRAMEWORKS ==
    [oecd_ai_principles |->
        [name |-> "OECD AI Principles",
         origin |-> "Adopted in 2019 and revised in 2024 by OECD member and partner countries as a non-binding intergovernmental standard."],
     eu_trustworthy_ai_guidelines |->
        [name |-> "EU Ethics Guidelines for Trustworthy AI",
         origin |-> "Developed by the European Commission's High-Level Expert Group on AI and published in April 2019 as influential but non-binding guidance."],
     australia_ai_ethics_principles |->
        [name |-> "Australia's AI Ethics Principles",
         origin |-> "Voluntary guidance published by the Australian Government for public and private AI development, aligned with OECD norms."],
     nist_ai_rmf |->
        [name |-> "NIST AI Risk Management Framework",
         origin |-> "Developed by the U.S. National Institute of Standards and Technology; AI RMF 1.0 released in 2023 with ongoing generative AI updates."],
     microsoft_responsible_ai_principles |->
        [name |-> "Microsoft Responsible AI Principles",
         origin |-> "Microsoft's internal and public commitments that guide AI product development, supported by governance standards and tooling."],
     responsible_ai_additional_references |->
        [name |-> "Other Notable Responsible AI Frameworks"]]

\* the keys of RESPONSIBLE_AI_FRAMEWORKS in the order of the dict literal
ResponsibleAiKeys ==
    <<"oecd_ai_principles",
      "eu_trustworthy_ai_guidelines",
      "australia_ai_ethics_principles",
      "nist_ai_rmf",
      "microsoft_responsible_ai_principles",
      "responsible_ai_additional_references">>

\* key.replace('_', ' ').title() over the keys of AI_ETHICS_GUIDELINES, and
\* bias_type.title() over the bias types of the model
Title(w) ==
    CASE w = "fairness" -> "Fairness"
      [] w = "transparency" -> "Transparency"
      [] w = "accountability" -> "Accountability"
      [] w = "privacy" -> "Privacy"
      [] w = "safety" -> "Safety"
      [] w = "human_autonomy" -> "Human Autonomy"
      [] w = "beneficence" -> "Beneficence"
      [] w = "sustainability" -> "Sustainability"
      [] w = "selection" -> "Selection"
      [] w = "confirmation" -> "Confirmation"
      [] w = "algorithmic" -> "Algorithmic"
      [] w = "representation" -> "Representation"
      [] w = "measurement" -> "Measurement"
      [] w = "care" -> "Care"
      [] OTHER -> "<Title>"

(***************************************************************************)
(* Completion gateway                                                      *)
(***************************************************************************)
\* mutant: a cached client is handed out without looking at the credential
get_openai_client_cached_first(env, client, built) ==
    IF ~IsNone(client)
    THEN [ret |-> client, client |-> client, built |-> built]
    ELSE IF ~Truthy(env)
         THEN [ret |-> PyNone, client |-> client, built |-> built]
         ELSE LET c == [t |-> "client", api_key |-> env.s, id |-> built + 1]
              IN  [ret |-> c, client |-> c, built |-> built + 1]

\* mutant: the cached client is dropped when the credential is absent
get_openai_client_forget_on_absent(env, client, built) ==
    IF ~Truthy(env)
    THEN [ret |-> PyNone, client |-> PyNone, built |-> built]
    ELSE IF IsNone(client)
    THEN LET c == [t |-> "client", api_key |-> env.s, id |-> built + 1]
         IN  [ret |-> c, client |-> c, built |-> built + 1]
    ELSE [ret |-> client, client |-> client, built |-> built]

\* mutant: every call constructs a client of its own
get_openai_client_no_cache(env, client, built) ==
    IF ~Truthy(env)
    THEN [ret |-> PyNone, client |-> client, built |-> built]
    ELSE LET c == [t |-> "client", api_key |-> env.s, id |-> built + 1]
         IN  [ret |-> c, client |-> c, built |-> built + 1]

\* mutant: the client is constructed again when the credential has changed
get_openai_client_rebuild_on_new_key(env, client, built) ==
    IF ~Truthy(env)
    THEN [ret |-> PyNone, client |-> client, built |-> built]
    ELSE IF IsNone(client) \/ client.api_key # env.s
         THEN LET c == [t |-> "client", api_key |-> env.s, id |-> built + 1]
              IN  [ret |-> c, client |-> c, built |-> built + 1]
         ELSE [ret |-> client, client |-> client, built |-> built]

\* _get_openai_client(): env is os.getenv("OPENAI_API_KEY"), client the
\* global _openai_client, built the number of AsyncOpenAI instances
\* constructed so far.  ret is the value returned, client the global after.
get_openai_client(env, client, built) ==
    IF ~Truthy(env)
    THEN [ret |-> PyNone, client |-> client, built |-> built]
    ELSE IF IsNone(client)
         THEN LET c == [t |-> "client", api_key |-> env.s, id |-> built + 1]
              IN  [ret |-> c, client |-> c, built |-> built + 1]
         ELSE [ret |-> client, client |-> client, built |-> built]

\* (the source puts OPENAI_API_KEY in backquotes, which a TLA+ string cannot hold)
API_KEY_WARNING == "Warning: OpenAI API key not configured (set OPENAI_API_KEY).\n\nRequested content could not be generated automatically:\n"

\* mutant: the fallback does not say which request it stands for
Tier1Text_no_subject(subject) ==
    <<API_KEY_WARNING, "\n\nProvide a valid API key to enable AI-generated analyses.">>

\* the text returned when no client is available
Tier1Text(subject) ==
    <<API_KEY_WARNING, subject,
      "\n\nProvide a valid API key to enable AI-generated analyses.">>

\* mutant: the error is logged but not put in the text
Tier2Text_no_error(subject, exc) ==
    <<"Warning: Encountered an error while contacting OpenAI.\n\nSubject: ",
      subject, "\nError: ", "\n\nPlease retry later or review API credentials.">>

\* the text returned when the completion call raised exc
Tier2Text(subject, exc) ==
    <<"Warning: Encountered an error while contacting OpenAI.\n\nSubject: ",
      subject, "\nError: ", exc,
      "\n\nPlease retry later or review API credentials.">>

\* the text returned when the completion has no usable text
Tier3Text(subject) ==
    <<"Warning: OpenAI returned an empty response.\n\nSubject: ", subject,
      "\n\nConsider reissuing the request or adjusting the input context.">>

\* response.choices[0].message if response.choices else None
FirstMessage(response) ==
    IF Truthy(response.choices) THEN response.choices.l[1].message ELSE PyNone

\* getattr(message, "content", "") if message else ""
MessageContent(message) ==
    IF IsNone(message) THEN EmptyStr
    ELSE IF message.content.t = "absent" THEN EmptyStr ELSE message.content

\* mutant: the content is returned as it came
Cleaned_unstripped(content) == IF Truthy(content) THEN content.s ELSE <<>>

\* content.strip() if content else ""
Cleaned(content) == IF Truthy(content) THEN strip(content.s) ELSE <<>>

OPENAI_MODEL_DEFAULT == "gpt-4o-mini"
SYSTEM_PROMPT == "You are the Ethicist MCP Server, an expert in responsible and ethical AI. ..."

\* the part of _generate_openai_response after the completion call returned
\* or raised; outcome is what the endpoint did
AfterCompletion(subject, outcome) ==
    IF outcome.kind = "raise"
    THEN Tier2Text(subject, outcome.exc)
    ELSE LET cleaned == Cleaned(MessageContent(FirstMessage(outcome)))
         IN  IF cleaned = <<>> THEN Tier3Text(subject) ELSE cleaned

\* mutant: a completion call that raised is issued a second time
generate_openai_response_retry(subject, user_prompt, env, client, built, model, outcome) ==
    LET g == get_openai_client(env, client, built)
        request == [client |-> g.ret, model |-> model, temperature |-> "0.7",
                    system |-> SYSTEM_PROMPT, user |-> user_prompt]
    IN  IF IsNone(g.ret)
        THEN [text |-> Tier1Text(subject), client |-> g.client,
              built |-> g.built, requests |-> <<>>]
        ELSE [text |-> AfterCompletion(subject, outcome), client |-> g.client,
              built |-> g.built,
              requests |-> IF outcome.kind = "raise" THEN <<request, request>>
                           ELSE <<request>>]

\* _generate_openai_response(subject, user_prompt, temperature=0.7) run to
\* completion, the endpoint answering with outcome.  requests is the
\* sequence of requests issued to the endpoint.
generate_openai_response(subject, user_prompt, env, client, built, model, outcome) ==
    LET g == get_openai_client(env, client, built)
    IN  IF IsNone(g.ret)
        THEN [text |-> Tier1Text(subject), client |-> g.client,
              built |-> g.built, requests |-> <<>>]
        ELSE [text |-> AfterCompletion(subject, outcome), client |-> g.client,
              built |-> g.built,
              requests |-> << [client |-> g.ret, model |-> model,
                               temperature |-> "0.7",
                               system |-> SYSTEM_PROMPT,
                               user |-> user_prompt] >>]


(***************************************************************************)
(* Tool dispatcher                                                         *)
(***************************************************************************)
ToolNames == <<"analyze_ethical_scenario", "evaluate_ai_system", "check_bias",
               "generate_ethical_guidelines", "assess_transparency">>

\* the "required" list of each inputSchema of list_tools()
Required(name) ==
    CASE name = "analyze_ethical_scenario" -> {"scenario"}
      [] name = "evaluate_ai_system" -> {"system_description", "use_case"}
      [] name = "check_bias" -> {"context"}
      [] name = "generate_ethical_guidelines" -> {"project_type"}
      [] name = "assess_transparency" -> {"system_type"}
      [] OTHER -> {}

\* mutant: every branch passes the same subject
Subject_generic(name) == "Requested analysis"

\* the subject each branch of call_tool passes to the gateway
Subject(name) ==
    CASE name = "analyze_ethical_scenario" -> "Ethical scenario analysis"
      [] name = "evaluate_ai_system" -> "AI system ethical evaluation"
      [] name = "check_bias" -> "Bias assessment"
      [] name = "generate_ethical_guidelines" -> "Project ethical guidelines"
      [] name = "assess_transparency" -> "Transparency assessment"
      [] OTHER -> "<none>"

\* arguments.get(key, default) on a mapping
Get(arguments, key, default) ==
    IF key \in DOMAIN arguments.d /\ arguments.d[key].t # "absent"
    THEN arguments.d[key]
    ELSE default

\* what a branch of call_tool does before it reaches the gateway: it raises,
\* returns a warning, or has composed the prompt
Raise(exc) == [status |-> "raise", exc |-> exc]
Warn(text) == [status |-> "warning", text |-> text]
Composed(prompt) == [status |-> "prompt", prompt |-> prompt]

\* "\n".join(f"- {item}" for item in items)
Bullets(items) == Join("\n", [i \in DOMAIN items |-> <<"- ", items[i]>>])

\* whether ETHICAL_FRAMEWORKS.get(key) finds an entry
KnownFramework(key) ==
    key.t = "str" /\ Len(key.s) = 1 /\ key.s[1] \in DOMAIN ETHICAL_FRAMEWORKS

\* the block call_tool renders for one framework
FrameworkBlock(framework) ==
    <<"### ", framework.name, "\nDescription: ", framework.description,
      "\nKey principles:\n">> \o Bullets(framework.key_principles)

\* framework_blocks: one block per recognised key, in the caller's order
RECURSIVE FrameworkBlocks(_)
FrameworkBlocks(keys) ==
    IF keys = <<>> THEN <<>>
    ELSE IF KnownFramework(Head(keys))
         THEN <<FrameworkBlock(ETHICAL_FRAMEWORKS[Head(keys).s[1]])>>
                  \o FrameworkBlocks(Tail(keys))
         ELSE FrameworkBlocks(Tail(keys))

\* mutant: the default of frameworks leaves out social_contract
DefaultFrameworks_three ==
    PyList(<<Word("utilitarian"), Word("deontological"), Word("virtue")>>)

DefaultFrameworks ==
    PyList(<<Word("utilitarian"), Word("deontological"), Word("virtue"),
             Word("social_contract")>>)

ANALYZE_INSTRUCTIONS == "\n\nAnalyse the scenario using each framework. For every framework include:\n- Core ethical focus and obligations\n- Scenario-specific assessment referencing the listed principles\n- Key risks, impacted stakeholders, and tension points\n- Practical mitigation or decision guidance\n\nConclude with:\n- Cross-framework synthesis highlighting convergences/divergences\n- Actionable recommendations and governance checkpoints\n- Risk register (high/medium/low) with monitoring cues."

\* the analyze_ethical_scenario branch up to the gateway call
analyze_ethical_scenario(arguments) ==
    IF arguments.t # "dict" THEN Raise("AttributeError")
    ELSE LET scenario == Get(arguments, "scenario", PyNone)
         IN  IF ~Truthy(scenario)
             THEN Warn(<<"Warning: The '", "scenario", "' argument is required.">>)
             ELSE LET frameworks == Get(arguments, "frameworks", DefaultFrameworks)
                  IN  IF ~Iterable(frameworks) THEN Raise("TypeError")
                      ELSE IF \E i \in DOMAIN frameworks.l : ~Hashable(frameworks.l[i])
                      THEN Raise("TypeError")
                      ELSE LET framework_blocks == FrameworkBlocks(frameworks.l)
                               frameworks_context ==
                                   IF framework_blocks # <<>>
                                   THEN Join("\n\n", framework_blocks)
                                   ELSE <<"No recognised frameworks provided.">>
                           IN  Composed(<<"Scenario:\n">> \o Fmt(scenario)
                                        \o <<"\n\nFramework context:\n">>
                                        \o frameworks_context
                                        \o <<ANALYZE_INSTRUCTIONS>>)

\* "\n".join(f"- {key.replace('_', ' ').title()}: {value}" for ...)
guideline_summary ==
    Join("\n", [i \in DOMAIN AI_ETHICS_GUIDELINES |->
                  <<"- ", Title(AI_ETHICS_GUIDELINES[i][1]), ": ",
                    AI_ETHICS_GUIDELINES[i][2]>>])

\* whether ", ".join(v) succeeds
Joinable(v) == Iterable(v) /\ \A i \in DOMAIN v.l : v.l[i].t = "str"

\* ", ".join(v)
CommaJoin(v) == Join(", ", [i \in DOMAIN v.l |-> v.l[i].s])

EVALUATE_INSTRUCTIONS == "\n\nProduce a Markdown report with sections for each guideline. For every section include:\n- Strengths currently observed or targeted\n- Gaps or risks with severity ratings\n- Mitigation actions, owners, and timelines\n- Metrics or signals to monitor\n\nAfter the per-guideline analysis provide:\n- A consolidated risk heatmap\n- Immediate, short-term, and long-term recommendations\n- Governance artefacts needed (policies, audits, documentation)\n- Stakeholder engagement plan."

\* mutant: only the first required argument is validated
evaluate_ai_system_first_only(arguments) ==
    IF arguments.t # "dict" THEN Raise("AttributeError")
    ELSE LET system_desc == Get(arguments, "system_description", PyNone)
             use_case == Get(arguments, "use_case", PyNone)
         IN  IF ~Truthy(system_desc)
             THEN Warn(<<"Warning: '", "system_description", "' and '", "use_case",
                         "' are required.">>)
             ELSE Composed(<<"Evaluate the ethical posture of an AI system.\n\nSystem description: ">>
                           \o Fmt(system_desc) \o <<"\nUse case: ">> \o Fmt(use_case))

\* the evaluate_ai_system branch up to the gateway call
evaluate_ai_system(arguments) ==
    IF arguments.t # "dict" THEN Raise("AttributeError")
    ELSE LET system_desc == Get(arguments, "system_description", PyNone)
             use_case == Get(arguments, "use_case", PyNone)
             stakeholders == Get(arguments, "stakeholders", PyList(<<>>))
         IN  IF ~Truthy(system_desc) \/ ~Truthy(use_case)
             THEN Warn(<<"Warning: '", "system_description", "' and '", "use_case",
                         "' are required.">>)
             ELSE IF Truthy(stakeholders) /\ ~Joinable(stakeholders)
             THEN Raise("TypeError")
             ELSE LET stakeholder_line ==
                          IF Truthy(stakeholders) THEN CommaJoin(stakeholders)
                          ELSE <<"Not specified">>
                  IN  Composed(<<"Evaluate the ethical posture of an AI system.\n\nSystem description: ">>
                               \o Fmt(system_desc) \o <<"\nUse case: ">>
                               \o Fmt(use_case) \o <<"\nStakeholders: ">>
                               \o stakeholder_line
                               \o <<"\n\nReference guidelines and principles:\n">>
                               \o guideline_summary
                               \o <<EVALUATE_INSTRUCTIONS>>)

BiasTypes == <<"selection", "confirmation", "algorithmic", "representation",
               "measurement">>

bias_descriptions ==
    [selection |-> "Occurs when the data sample is not representative of the population",
     confirmation |-> "Tendency to interpret information confirming existing beliefs",
     algorithmic |-> "Systematic errors introduced by algorithm design choices",
     representation |-> "Underrepresentation or misrepresentation of certain groups",
     measurement |-> "Errors in how variables are defined and measured"]

DefaultBiasTypes == PyList([i \in DOMAIN BiasTypes |-> Word(BiasTypes[i])])

\* f"- {bias_type.title()} bias: {bias_descriptions.get(bias_type, ...)}"
BiasLine(bias_type) ==
    <<"- ">> \o [i \in DOMAIN bias_type.s |-> Title(bias_type.s[i])]
      \o <<" bias: ",
           IF Len(bias_type.s) = 1 /\ bias_type.s[1] \in DOMAIN bias_descriptions
           THEN bias_descriptions[bias_type.s[1]]
           ELSE "No definition available">>

BIAS_INSTRUCTIONS == "\n\nDeliver a structured bias risk assessment that includes:\n- Diagnostic questions and tests for each bias type\n- Evidence to collect or metrics to review\n- Likely impacts on stakeholders and compliance obligations\n- Concrete mitigation strategies (data, model, process, governance)\n- Residual risk and monitoring plans\n- Checklist for ongoing assurance."

\* the check_bias branch up to the gateway call
check_bias(arguments) ==
    IF arguments.t # "dict" THEN Raise("AttributeError")
    ELSE LET context == Get(arguments, "context", PyNone)
             bias_types == Get(arguments, "bias_types", DefaultBiasTypes)
         IN  IF ~Truthy(context)
             THEN Warn(<<"Warning: The '", "context", "' argument is required.">>)
             ELSE IF ~Iterable(bias_types) THEN Raise("TypeError")
             ELSE IF \E i \in DOMAIN bias_types.l : bias_types.l[i].t # "str"
             THEN Raise("AttributeError")
             ELSE Composed(<<"Context for bias assessment:\n">> \o Fmt(context)
                           \o <<"\n\nBias types to evaluate:\n">>
                           \o Join("\n", [i \in DOMAIN bias_types.l |->
                                             BiasLine(bias_types.l[i])])
                           \o <<BIAS_INSTRUCTIONS>>)

GUIDELINES_INSTRUCTIONS == "\n\nOutput a Markdown guide containing:\n- Executive summary with risk posture\n- Principle-by-principle requirements with acceptance criteria\n- Domain-specific considerations (reference regulations if provided)\n- Roles and responsibilities matrix\n- Implementation roadmap (immediate, near-term, long-term)\n- Assurance activities (audits, evaluations, reporting)\n- Stakeholder engagement and communication plan\n- KPIs/metrics for ongoing monitoring."

\* the generate_ethical_guidelines branch up to the gateway call
generate_ethical_guidelines(arguments) ==
    IF arguments.t # "dict" THEN Raise("AttributeError")
    ELSE LET project_type == Get(arguments, "project_type", PyNone)
             risk_level == Get(arguments, "risk_level", Word("medium"))
             regulations == Get(arguments, "regulations", PyList(<<>>))
         IN  IF ~Truthy(project_type)
             THEN Warn(<<"Warning: The '", "project_type", "' argument is required.">>)
             ELSE IF Truthy(regulations) /\ ~Joinable(regulations)
             THEN Raise("TypeError")
             ELSE LET regulations_line ==
                          IF Truthy(regulations) THEN CommaJoin(regulations)
                          ELSE <<"None specified">>
                  IN  Composed(<<"Create ethical guidelines.\n\nProject type: ">>
                               \o Fmt(project_type) \o <<"\nRisk level: ">>
                               \o Fmt(risk_level)
                               \o <<"\nRegulations or standards: ">>
                               \o regulations_line
                               \o <<"\n\nRelevant ethical principles:\n">>
                               \o guideline_summary
                               \o <<GUIDELINES_INSTRUCTIONS>>)

TRANSPARENCY_INSTRUCTIONS == "\n\nAddress the following:\n- Transparency objectives for each stakeholder group\n- Current explanation techniques and their adequacy\n- Gaps in comprehensibility, documentation, or tooling\n- Risks related to opacity, misinterpretation, or misuse\n- Recommendations for improving transparency (technical, process, communication)\n- Evidence required for regulatory or assurance purposes\n- Plan for monitoring transparency effectiveness over time."

\* the assess_transparency branch up to the gateway call
assess_transparency(arguments) ==
    IF arguments.t # "dict" THEN Raise("AttributeError")
    ELSE LET system_type == Get(arguments, "system_type", PyNone)
             explanation_method == Get(arguments, "explanation_method", PyNone)
             stakeholder_needs == Get(arguments, "stakeholder_needs", PyList(<<>>))
         IN  IF ~Truthy(system_type)
             THEN Warn(<<"Warning: The '", "system_type", "' argument is required.">>)
             ELSE IF Truthy(stakeholder_needs) /\ ~Joinable(stakeholder_needs)
             THEN Raise("TypeError")
             ELSE LET explanation_line ==
                          IF Truthy(explanation_method) THEN Fmt(explanation_method)
                          ELSE <<"Not specified">>
                      stakeholders_line ==
                          IF Truthy(stakeholder_needs) THEN CommaJoin(stakeholder_needs)
                          ELSE <<"Not specified">>
                  IN  Composed(<<"Prepare a transparency and explainability assessment.\n\nSystem type: ">>
                               \o Fmt(system_type) \o <<"\nExplanation method: ">>
                               \o explanation_line \o <<"\nStakeholder needs: ">>
                               \o stakeholders_line
                               \o <<TRANSPARENCY_INSTRUCTIONS>>)

\* mutant: an unknown tool is a hard failure, as an unknown resource is
unknown_tool_raises(name) == Raise("ValueError")

\* the else branch of call_tool
unknown_tool(name) == Warn(<<"Unknown tool: ", name>>)

\* the if/elif chain of call_tool, each branch up to its gateway call
Dispatch(name, arguments) ==
    CASE name = "analyze_ethical_scenario" -> analyze_ethical_scenario(arguments)
      [] name = "evaluate_ai_system" -> evaluate_ai_system(arguments)
      [] name = "check_bias" -> check_bias(arguments)
      [] name = "generate_ethical_guidelines" -> generate_ethical_guidelines(arguments)
      [] name = "assess_transparency" -> assess_transparency(arguments)
      [] OTHER -> unknown_tool(name)

TextContent(text) == [type |-> "text", text |-> text]

\* call_tool(name, arguments) run to completion, the endpoint answering the
\* request (if one is issued) with outcome.  gateway counts the calls of
\* _generate_openai_response.
call_tool(name, arguments, env, client, built, model, outcome) ==
    LET d == Dispatch(name, arguments)
    IN  CASE d.status = "raise" ->
                [raised |-> d.exc, content |-> <<>>, client |-> client,
                 built |-> built, gateway |-> 0, requests |-> <<>>]
          [] d.status = "warning" ->
                [raised |-> "", content |-> <<TextContent(d.text)>>,
                 client |-> client, built |-> built, gateway |-> 0,
                 requests |-> <<>>]
          [] OTHER ->
                LET g == generate_openai_response(Subject(name), d.prompt, env,
                                                  client, built, model, outcome)
                IN  [raised |-> "", content |-> <<TextContent(g.text)>>,
                     client |-> g.client, built |-> g.built, gateway |-> 1,
                     requests |-> g.requests]


(***************************************************************************)
(* Resource resolver                                                       *)
(*                                                                         *)
(* A URI string is the sequence of its pieces between "/" characters:      *)
(* "ethicist://frameworks/virtue" is <<"ethicist:", "", "frameworks",      *)
(* "virtue">>, so that ==, startswith and split("/") are computed as the   *)
(* code computes them.                                                     *)
(***************************************************************************)
FRAMEWORKS_ALL == <<"ethicist:", "", "frameworks", "all">>
GUIDELINES_AI_ETHICS == <<"ethicist:", "", "guidelines", "ai-ethics">>

\* uri_str.startswith("ethicist://frameworks/")
StartsWithFrameworks(uri_str) ==
    Len(uri_str) >= 4 /\ SubSeq(uri_str, 1, 3) = <<"ethicist:", "", "frameworks">>

\* uri_str.split("/")[-1]
LastSegment(uri_str) == uri_str[Len(uri_str)]

\* json.dumps(obj, indent=2)
json_dumps(obj) == [t |-> "json", indent |-> 2, obj |-> obj]

Returned(text) == [raised |-> FALSE, text |-> text]
\* raise ValueError(f"<what>{arg}"): arg is the interpolated string, as the
\* sequence of its pieces between "/" characters
ValueError(what, arg) == [raised |-> TRUE, what |-> what, arg |-> arg]

\* mutant: keys are looked up in ETHICAL_FRAMEWORKS only
read_resource_ethics_only(uri_str) ==
    IF uri_str = FRAMEWORKS_ALL THEN Returned(json_dumps(ETHICAL_FRAMEWORKS))
    ELSE IF uri_str = GUIDELINES_AI_ETHICS
    THEN Returned(json_dumps(AI_ETHICS_GUIDELINES))
    ELSE IF StartsWithFrameworks(uri_str)
    THEN LET framework_key == LastSegment(uri_str)
         IN  IF framework_key = "responsible_ai"
             THEN Returned(json_dumps(RESPONSIBLE_AI_FRAMEWORKS))
             ELSE IF framework_key \in DOMAIN ETHICAL_FRAMEWORKS
             THEN Returned(json_dumps(ETHICAL_FRAMEWORKS[framework_key]))
             ELSE ValueError("Unknown framework: ", <<framework_key>>)
    ELSE ValueError("Unknown resource URI: ", uri_str)

\* read_resource(uri), uri_str being str(uri)
read_resource(uri_str) ==
    IF uri_str = FRAMEWORKS_ALL THEN Returned(json_dumps(ETHICAL_FRAMEWORKS))
    ELSE IF uri_str = GUIDELINES_AI_ETHICS
    THEN Returned(json_dumps(AI_ETHICS_GUIDELINES))
    ELSE IF StartsWithFrameworks(uri_str)
    THEN LET framework_key == LastSegment(uri_str)
         IN  IF framework_key = "responsible_ai"
             THEN Returned(json_dumps(RESPONSIBLE_AI_FRAMEWORKS))
             ELSE IF framework_key \in DOMAIN ETHICAL_FRAMEWORKS
             THEN Returned(json_dumps(ETHICAL_FRAMEWORKS[framework_key]))
             ELSE IF framework_key \in DOMAIN RESPONSIBLE_AI_FRAMEWORKS
             THEN Returned(json_dumps(RESPONSIBLE_AI_FRAMEWORKS[framework_key]))
             ELSE ValueError("Unknown framework: ", <<framework_key>>)
    ELSE ValueError("Unknown resource URI: ", uri_str)

(***************************************************************************)
(* Registries and prompt templates                                         *)
(***************************************************************************)
ToolDescriptions ==
    <<"Analyse an ethical scenario using multiple ethical frameworks and provide comprehensive guidance",
      "Evaluate an AI system against ethical guidelines and principles",
      "Check for potential biases in AI system design, data, or decision-making",
      "Generate customised ethical guidelines for a specific AI project or use case",
      "Assess the transparency and explainability of an AI system">>

\* the names of the properties of each inputSchema, in order
ToolProperties ==
    <<<<"scenario", "frameworks">>,
      <<"system_description", "use_case", "stakeholders">>,
      <<"context", "bias_types">>,
      <<"project_type", "risk_level", "regulations">>,
      <<"system_type", "explanation_method", "stakeholder_needs">>>>

\* mutant: the last tool is left out of the list
list_tools_four ==
    [i \in 1..4 |->
        [name |-> ToolNames[i], description |-> ToolDescriptions[i],
         properties |-> ToolProperties[i], required |-> Required(ToolNames[i])]]

\* list_tools()
list_tools ==
    [i \in DOMAIN ToolNames |->
        [name |-> ToolNames[i], description |-> ToolDescriptions[i],
         properties |-> ToolProperties[i], required |-> Required(ToolNames[i])]]

\* str(AnyUrl(f"ethicist://frameworks/{key}")), as its pieces between "/"
FrameworkUri(key) == <<"ethicist:", "", "frameworks", key>>

Resource(uri, name, description) ==
    [uri |-> uri, name |-> name, mimeType |-> "application/json",
     description |-> description]

\* the literal list list_resources() starts from
FixedResources ==
    <<Resource(<<"ethicist:", "", "frameworks", "all">>,
               "Ethical Frameworks",
               "Complete database of major ethical frameworks and their principles"),
      Resource(<<"ethicist:", "", "guidelines", "ai-ethics">>,
               "AI Ethics Guidelines",
               "Comprehensive AI ethics guidelines and principles"),
      Resource(<<"ethicist:", "", "frameworks", "utilitarian">>,
               "Utilitarian Ethics",
               "Utilitarian ethical framework details"),
      Resource(<<"ethicist:", "", "frameworks", "deontological">>,
               "Deontological Ethics",
               "Deontological ethical framework details"),
      Resource(<<"ethicist:", "", "frameworks", "virtue">>,
               "Virtue Ethics",
               "Virtue ethics framework details"),
      Resource(<<"ethicist:", "", "frameworks", "social_contract">>,
               "Social Contract Theory",
               "Social contract theory framework details rooted in Rawlsian and Scanlonian perspectives"),
      Resource(<<"ethicist:", "", "frameworks", "responsible_ai">>,
               "Responsible AI Frameworks Overview",
               "Aggregated view of OECD, EU, Australia, NIST, Microsoft, and related responsible AI frameworks")>>

\* the Resource list_resources() appends for one entry of
\* RESPONSIBLE_AI_FRAMEWORKS
ResponsibleAiResource(key) ==
    LET data == RESPONSIBLE_AI_FRAMEWORKS[key]
    IN  Resource(FrameworkUri(key),
                 IF "name" \in DOMAIN data THEN data.name ELSE Title(key),
                 IF "origin" \in DOMAIN data THEN data.origin
                 ELSE "Detailed reference material for responsible AI frameworks")

\* mutant: the entries of RESPONSIBLE_AI_FRAMEWORKS are not appended
list_resources_fixed_only == FixedResources

\* list_resources()
list_resources ==
    FixedResources
      \o [i \in DOMAIN ResponsibleAiKeys |-> ResponsibleAiResource(ResponsibleAiKeys[i])]

PromptArgument(name, description, required) ==
    [name |-> name, description |-> description, required |-> required]

\* list_prompts()
list_prompts ==
    <<[name |-> "ethical_decision_making",
       description |-> "Guide users through a structured ethical decision-making process",
       arguments |-> <<PromptArgument("situation", "The ethical situation or decision to be made", TRUE)>>],
      [name |-> "stakeholder_analysis",
       description |-> "Help analyse and consider all stakeholders affected by a decision",
       arguments |-> <<PromptArgument("decision", "The decision or action being considered", TRUE)>>],
      [name |-> "ai_risk_assessment",
       description |-> "Assess potential ethical risks of an AI system",
       arguments |-> <<PromptArgument("system_description", "Description of the AI system", TRUE), PromptArgument("deployment_context", "Where and how the system will be deployed", FALSE)>>]>>

DECISION_TEMPLATE == "\n\nPlease help me analyse this using a structured approach:\n\n1. **Clarify the Situation**\n   - What are the key facts?\n   - What is the core ethical question?\n   - What is at stake?\n\n2. **Identify Stakeholders**\n   - Who will be affected by this decision?\n   - What are their interests and concerns?\n   - Who has power and who is vulnerable?\n\n3. **Consider Multiple Perspectives**\n   - Utilitarian: What produces the greatest good?\n   - Deontological: What are my duties and obligations?\n   - Virtue Ethics: What would a person of good character do?\n   - Social Contract: Would this decision be acceptable under fair terms to all affected parties?\n\n4. **Evaluate Options**\n   - What are the possible courses of action?\n   - What are the likely consequences of each?\n   - Which aligns best with ethical principles?\n\n5. **Make a Decision**\n   - What is the most ethical choice?\n   - How will I implement it?\n   - How will I monitor the outcome?\n\nPlease guide me through this process."

STAKEHOLDER_TEMPLATE == "\n\nHelp me identify and analyse all stakeholders:\n\n1. **Direct Stakeholders** (immediately affected)\n   - Who benefits directly from this decision?\n   - Who might be harmed directly?\n   - What are their rights and interests?\n\n2. **Indirect Stakeholders** (secondarily affected)\n   - Who else might be impacted?\n   - What are the ripple effects?\n   - Are there future generations to consider?\n\n3. **Power Analysis**\n   - Who has decision-making power?\n   - Who is vulnerable or powerless?\n   - How can we ensure fair representation?\n\n4. **Stakeholder Engagement**\n   - Who should be consulted?\n   - How can we gather their input?\n   - How do we balance competing interests?\n\n5. **Equity Considerations**\n   - Are any groups disproportionately affected?\n   - How can we ensure fairness?\n   - What are the implications for social justice?\n\nPlease help me work through each of these areas."

RISK_TEMPLATE == "\n\nPlease help me evaluate:\n\n1. **Fairness Risks**\n   - Could the system discriminate against protected groups?\n   - Is the training data representative?\n   - Are there historical biases to consider?\n   - How will we measure and ensure fairness?\n\n2. **Transparency Risks**\n   - Can users understand how decisions are made?\n   - Is the system's logic explainable?\n   - Are there \"black box\" concerns?\n   - What documentation is needed?\n\n3. **Privacy Risks**\n   - What personal data is collected?\n   - How is data protected?\n   - Are privacy regulations followed?\n   - Could data be misused?\n\n4. **Safety and Security Risks**\n   - What could go wrong?\n   - How are errors handled?\n   - Could the system be manipulated?\n   - What are the failure modes?\n\n5. **Autonomy and Control Risks**\n   - Does the system preserve human agency?\n   - Can decisions be appealed?\n   - Is there appropriate human oversight?\n   - Could it create dependency?\n\n6. **Social Impact Risks**\n   - How might this affect employment?\n   - Could it increase inequality?\n   - What are the environmental impacts?\n   - Are there unintended consequences?\n\nPlease help me assess each risk category and recommend mitigations."

\* mutant: an argument that is not supplied is rendered as the empty string
PromptArgumentValue_empty_default(arguments, key, default) ==
    IF Truthy(arguments) THEN Get(arguments, key, EmptyStr) ELSE EmptyStr

\* arguments.get(key, default) if arguments else default
PromptArgumentValue(arguments, key, default) ==
    IF Truthy(arguments) THEN Get(arguments, key, default) ELSE default

GetPromptResult(description, text) ==
    [raised |-> FALSE, description |-> description,
     messages |-> <<[role |-> "user", content |-> TextContent(text)]>>]

\* mutant: an unknown prompt gets the decision-making template
get_prompt_default_template(name, arguments) ==
    IF name = "stakeholder_analysis"
    THEN GetPromptResult("Comprehensive stakeholder analysis",
             <<"I need to analyse stakeholders for: ">>
               \o Fmt(PromptArgumentValue(arguments, "decision", Word("this decision")))
               \o <<STAKEHOLDER_TEMPLATE>>)
    ELSE IF name = "ai_risk_assessment"
    THEN GetPromptResult("AI ethical risk assessment",
             <<"I need to assess ethical risks for: ">>
               \o Fmt(PromptArgumentValue(arguments, "system_description", Word("an AI system")))
               \o <<"\nDeployment context: ">>
               \o Fmt(PromptArgumentValue(arguments, "deployment_context", Word("various contexts")))
               \o <<RISK_TEMPLATE>>)
    ELSE GetPromptResult("Structured ethical decision-making process",
             <<"I need help thinking through an ethical decision: ">>
               \o Fmt(PromptArgumentValue(arguments, "situation", Word("a difficult choice")))
               \o <<DECISION_TEMPLATE>>)

\* mutant: a call without the first, required argument of the prompt is refused
get_prompt_validating(name, arguments) ==
    IF name = "ethical_decision_making"
    THEN IF Get(IF Truthy(arguments) THEN arguments ELSE [t |-> "dict", d |-> <<>>],
                "situation", Absent) = Absent
         THEN ValueError("Missing required argument: ", <<"situation">>)
         ELSE GetPromptResult("Structured ethical decision-making process",
                  <<"I need help thinking through an ethical decision: ">>
                    \o Fmt(PromptArgumentValue(arguments, "situation", Word("a difficult choice")))
                    \o <<DECISION_TEMPLATE>>)
    ELSE IF name = "stakeholder_analysis"
    THEN IF Get(IF Truthy(arguments) THEN arguments ELSE [t |-> "dict", d |-> <<>>],
                "decision", Absent) = Absent
         THEN ValueError("Missing required argument: ", <<"decision">>)
         ELSE GetPromptResult("Comprehensive stakeholder analysis",
                  <<"I need to analyse stakeholders for: ">>
                    \o Fmt(PromptArgumentValue(arguments, "decision", Word("this decision")))
                    \o <<STAKEHOLDER_TEMPLATE>>)
    ELSE IF name = "ai_risk_assessment"
    THEN IF Get(IF Truthy(arguments) THEN arguments ELSE [t |-> "dict", d |-> <<>>],
                "system_description", Absent) = Absent
         THEN ValueError("Missing required argument: ", <<"system_description">>)
         ELSE GetPromptResult("AI ethical risk assessment",
                  <<"I need to assess ethical risks for: ">>
                    \o Fmt(PromptArgumentValue(arguments, "system_description", Word("an AI system")))
                    \o <<"\nDeployment context: ">>
                    \o Fmt(PromptArgumentValue(arguments, "deployment_context", Word("various contexts")))
                    \o <<RISK_TEMPLATE>>)
    ELSE ValueError("Unknown prompt: ", <<name>>)

\* get_prompt(name, arguments)
get_prompt(name, arguments) ==
    IF name = "ethical_decision_making"
    THEN GetPromptResult("Structured ethical decision-making process",
             <<"I need help thinking through an ethical decision: ">>
               \o Fmt(PromptArgumentValue(arguments, "situation", Word("a difficult choice")))
               \o <<DECISION_TEMPLATE>>)
    ELSE IF name = "stakeholder_analysis"
    THEN GetPromptResult("Comprehensive stakeholder analysis",
             <<"I need to analyse stakeholders for: ">>
               \o Fmt(PromptArgumentValue(arguments, "decision", Word("this decision")))
               \o <<STAKEHOLDER_TEMPLATE>>)
    ELSE IF name = "ai_risk_assessment"
    THEN GetPromptResult("AI ethical risk assessment",
             <<"I need to assess ethical risks for: ">>
               \o Fmt(PromptArgumentValue(arguments, "system_description", Word("an AI system")))
               \o <<"\nDeployment context: ">>
               \o Fmt(PromptArgumentValue(arguments, "deployment_context", Word("various contexts")))
               \o <<RISK_TEMPLATE>>)
    ELSE ValueError("Unknown prompt: ", <<name>>)

(***************************************************************************)
(* Inputs                                                                  *)
(***************************************************************************)
Dict(d) == [t |-> "dict", d |-> d]

RequiredValues == {Absent, PyNone, EmptyStr, Word("s1"), PyInt(5)}
ShortRequiredValues == {Absent, EmptyStr, Word("s1")}
FrameworksValues ==
    {Absent, PyNone, PyInt(5), PyList(<<>>),
     PyList(<<Word("virtue")>>),
     PyList(<<Word("utilitarian"), Word("deontological"), Word("virtue"),
              Word("social_contract")>>),
     PyList(<<Word("utilitarian"), Word("care")>>),
     PyList(<<Word("care")>>),
     PyList(<<PyInt(5)>>),
     PyList(<<PyList(<<>>)>>)}
BiasTypesValues ==
    {Absent, PyNone, PyInt(5), PyList(<<>>),
     PyList(<<Word("selection"), Word("representation")>>),
     PyList(<<Word("selection"), Word("confirmation"), Word("algorithmic"),
              Word("representation"), Word("measurement")>>),
     PyList(<<Word("care")>>),
     PyList(<<PyInt(5)>>)}
StringListValues ==
    {Absent, PyNone, PyInt(5), PyList(<<>>),
     PyList(<<Word("job seekers"), Word("HR team")>>),
     PyList(<<PyInt(5)>>)}
RiskLevelValues == {Absent, PyNone, Word("high"), Word("medium")}
ExplanationValues == {Absent, PyNone, EmptyStr, Word("SHAP values")}

\* the argument mappings a caller passes to the tool called name
ArgumentsFor(name) ==
    CASE name = "analyze_ethical_scenario" ->
            {Dict([scenario |-> a, frameworks |-> b]) :
                a \in RequiredValues, b \in FrameworksValues}
      [] name = "evaluate_ai_system" ->
            {Dict([system_description |-> a[1], use_case |-> a[2], stakeholders |-> b]) :
                a \in ShortRequiredValues \X ShortRequiredValues,
                b \in StringListValues}
      [] name = "check_bias" ->
            {Dict([context |-> a, bias_types |-> b]) :
                a \in RequiredValues \cup {Word("Historical hiring data")},
                b \in BiasTypesValues}
      [] name = "generate_ethical_guidelines" ->
            {Dict([project_type |-> a, risk_level |-> b[1], regulations |-> b[2]]) :
                a \in ShortRequiredValues,
                b \in RiskLevelValues \X StringListValues}
      [] name = "assess_transparency" ->
            {Dict([system_type |-> a, explanation_method |-> b[1],
                   stakeholder_needs |-> b[2]]) :
                a \in ShortRequiredValues,
                b \in ExplanationValues \X StringListValues}
      [] OTHER ->
            {Dict([scenario |-> a]) : a \in {Absent, Word("s1")}}

\* names passed to call_tool: the five tools and names that are none of them
CalledNames ==
    {ToolNames[i] : i \in DOMAIN ToolNames} \cup {"summarise", "Check_Bias", ""}

\* no argument mapping at all, or a mapping
CallArguments(name) == {PyNone} \cup ArgumentsFor(name)

\* values of OPENAI_API_KEY in the environment
Credentials == {PyNone, EmptyStr, Word("sk-1"), Word("sk-2")}

ContentTokens == {" ", "\n", "a"}
Contents ==
    UNION {[1..n -> ContentTokens] : n \in 0..MaxContentLen}

Message(content) == [t |-> "message", content |-> content]
Response(choices) == [kind |-> "response", choices |-> choices]
Raised(exc) == [kind |-> "raise", exc |-> exc]
NoOutcome == [kind |-> "none"]

\* what the completion endpoint does with a request: the call raises, or
\* returns a response object
Outcomes ==
    {Raised(e) : e \in {"Connection error.", "Rate limit reached"}}
    \cup {Response(PyNone), Response(PyList(<<>>)),
          Response(PyList(<<[message |-> PyNone]>>)),
          Response(PyList(<<[message |-> Message(Absent)]>>)),
          Response(PyList(<<[message |-> Message(PyNone)]>>))}
    \cup {Response(PyList(<<[message |-> Message(PyStr(c))]>>)) : c \in Contents}

ResourceUris ==
    {FRAMEWORKS_ALL, GUIDELINES_AI_ETHICS,
     <<"ethicist:", "", "frameworks", "virtue">>,
     <<"ethicist:", "", "frameworks", "responsible_ai">>,
     <<"ethicist:", "", "frameworks", "nist_ai_rmf">>,
     <<"ethicist:", "", "frameworks", "care">>,
     <<"ethicist:", "", "frameworks", "">>,
     <<"ethicist:", "", "frameworks">>,
     <<"ethicist:", "", "frameworks", "care", "virtue">>,
     <<"ethicist:", "", "frameworks", "care", "responsible_ai">>,
     <<"ethicist:", "", "frameworks", "care", "all">>,
     <<"ethicist:", "", "guidelines", "virtue">>,
     <<"other:", "", "frameworks", "virtue">>,
     <<"ethicist:", "", "frameworksx", "virtue">>}

\* the URIs passed to read_resource: those above and those list_resources
\* returns
ReadableUris == ResourceUris \cup {list_resources[i].uri : i \in DOMAIN list_resources}

PromptNames ==
    {list_prompts[i].name : i \in DOMAIN list_prompts} \cup {"summarise", ""}

\* no argument mapping, an empty mapping, or a mapping with some of the
\* arguments of the prompt
PromptArguments(name) ==
    {PyNone}
    \cup (CASE name = "ethical_decision_making" ->
               {Dict([situation |-> a]) : a \in {Absent, EmptyStr, PyNone, Word("X")}}
            [] name = "stakeholder_analysis" ->
               {Dict([decision |-> a]) : a \in {Absent, EmptyStr, Word("X")}}
            [] name = "ai_risk_assessment" ->
               {Dict([system_description |-> a[1], deployment_context |-> a[2]]) :
                   a \in {Absent, EmptyStr, Word("X")} \X {Absent, Word("Y")}}
            [] OTHER ->
               {Dict([situation |-> a]) : a \in {Absent, Word("X")}})

(***************************************************************************)
(* State                                                                   *)
(***************************************************************************)
VARIABLES
    env,            \* os.environ["OPENAI_API_KEY"], PyNone when unset
    OPENAI_MODEL,   \* the module constant read from the environment at import
    openai_client,  \* the global _openai_client
    built,          \* number of AsyncOpenAI instances constructed
    sawAbsent,      \* some gateway call has found the credential absent
    last,           \* the handler call that has run and whose result the
                    \* caller has not taken yet; op is "none" between calls
    inflight,       \* the calls of call_tool suspended at the completion call
    seen,           \* one earlier handler call, with its result
    envModel,       \* os.environ["OPENAI_MODEL"], PyNone when unset
    firstUse        \* the environment as it was at the first gateway call

vars == <<env, OPENAI_MODEL, openai_client, built, sawAbsent, last, inflight, seen,
          envModel, firstUse>>

\* the state only the calls made while the configuration changes use
configVars == <<envModel, firstUse>>

ModelOverrides == {PyNone, Word("gpt-4o")}

\* os.getenv("OPENAI_MODEL", "gpt-4o-mini")
getenv_model(e) ==
    IF e.t = "None" THEN OPENAI_MODEL_DEFAULT
    ELSE IF e.s = <<>> THEN "" ELSE e.s[1]

NotUsed == [used |-> FALSE]

\* the state only the handlers running concurrently use
serveVars == <<inflight, seen>>

Slots == 1..MaxInFlight
Free == [pc |-> "free"]
NotSeen == [op |-> "none"]

Init ==
    /\ env \in Credentials
    /\ envModel \in ModelOverrides
    /\ OPENAI_MODEL = getenv_model(envModel)
    /\ firstUse = NotUsed
    /\ openai_client = PyNone
    /\ built = 0
    /\ sawAbsent = FALSE
    /\ last = [op |-> "none"]
    /\ inflight = [s \in Slots |-> Free]
    /\ seen = NotSeen

\* the process environment changes (os.environ is assigned, or a key removed)
SetEnv ==
    /\ \E k \in Credentials : k # env /\ env' = k
    /\ UNCHANGED <<OPENAI_MODEL, configVars, openai_client, built, sawAbsent, last, serveVars>>

\* mutant: the model name is read from the environment when the request is made
ModelUsed_at_call == getenv_model(envModel)

\* model=OPENAI_MODEL in the completion call
ModelUsed == OPENAI_MODEL

Idle == last.op = "none"

\* one call of call_tool, from the call to its return
CallTool ==
    /\ Idle
    /\ \E name \in CalledNames :
      \E arguments \in CallArguments(name) :
        \E outcome \in
              IF Dispatch(name, arguments).status = "prompt"
                   /\ ~IsNone(get_openai_client(env, openai_client, built).ret)
              THEN Outcomes ELSE {NoOutcome} :
          LET r == call_tool(name, arguments, env, openai_client, built,
                             ModelUsed, outcome)
          IN  /\ openai_client' = r.client
              /\ built' = r.built
              /\ sawAbsent' = (sawAbsent \/ (r.gateway > 0 /\ ~Truthy(env)))
              /\ last' = [op |-> "call_tool", name |-> name,
                          arguments |-> arguments, outcome |-> outcome,
                          env |-> env, client_before |-> openai_client,
                          saw_absent_before |-> sawAbsent,
                          raised |-> r.raised, content |-> r.content,
                          gateway |-> r.gateway, requests |-> r.requests,
                          built |-> r.built - built]
              /\ UNCHANGED <<env, OPENAI_MODEL, configVars, serveVars>>

\* mutant: read_resource obtains the completion client before it resolves
ReadResource_warming ==
    /\ Idle
    /\ \E uri_str \in ReadableUris :
         LET g == get_openai_client(env, openai_client, built)
         IN  /\ last' = [op |-> "read_resource", uri |-> uri_str,
                         result |-> read_resource(uri_str)]
             /\ openai_client' = g.client
             /\ built' = g.built
    /\ UNCHANGED <<env, OPENAI_MODEL, configVars, sawAbsent, serveVars>>

\* one call of read_resource
ReadResource ==
    /\ Idle
    /\ \E uri_str \in ReadableUris :
      /\ last' = [op |-> "read_resource", uri |-> uri_str,
                  result |-> read_resource(uri_str)]
      /\ UNCHANGED <<env, OPENAI_MODEL, configVars, openai_client, built, sawAbsent, serveVars>>

\* one call of list_tools
ListTools ==
    /\ Idle
    /\ last' = [op |-> "list_tools", result |-> list_tools]
    /\ UNCHANGED <<env, OPENAI_MODEL, configVars, openai_client, built, sawAbsent, serveVars>>

\* one call of list_resources
ListResources ==
    /\ Idle
    /\ last' = [op |-> "list_resources", result |-> list_resources]
    /\ UNCHANGED <<env, OPENAI_MODEL, configVars, openai_client, built, sawAbsent, serveVars>>

\* one call of list_prompts
ListPrompts ==
    /\ Idle
    /\ last' = [op |-> "list_prompts", result |-> list_prompts]
    /\ UNCHANGED <<env, OPENAI_MODEL, configVars, openai_client, built, sawAbsent, serveVars>>

\* one call of get_prompt
GetPrompt ==
    /\ Idle
    /\ \E name \in PromptNames :
         \E arguments \in PromptArguments(name) :
           last' = [op |-> "get_prompt", name |-> name, arguments |-> arguments,
                    result |-> get_prompt(name, arguments)]
    /\ UNCHANGED <<env, OPENAI_MODEL, configVars, openai_client, built, sawAbsent, serveVars>>

\* the caller takes the result (or the exception) of the call
Return ==
    /\ ~Idle
    /\ last' = [op |-> "none"]
    /\ UNCHANGED <<env, OPENAI_MODEL, configVars, openai_client, built, sawAbsent, serveVars>>

Next ==
    \/ SetEnv \/ CallTool \/ ReadResource \/ ListTools \/ ListResources
    \/ ListPrompts \/ GetPrompt \/ Return

Spec == Init /\ [][Next]_vars


(***************************************************************************)
(* Handlers running concurrently on the event loop.  A coroutine runs      *)
(* without interruption up to its next await; the only await of the        *)
(* handlers that suspends is the completion call of                        *)
(* _generate_openai_response.  A call of call_tool that reaches it is kept *)
(* in inflight until the endpoint answers; every other handler call runs   *)
(* from start to return in one step.                                       *)
(***************************************************************************)
ServeToolCalls ==
    {<<"check_bias", Dict([context |-> Word("s1"), bias_types |-> Absent])>>,
     <<"analyze_ethical_scenario", Dict([scenario |-> Absent, frameworks |-> Absent])>>,
     <<"summarise", PyNone>>}

ServeOutcomes ==
    {Raised("Connection error."),
     Response(PyList(<<[message |-> Message(PyStr(<<"a">>))]>>))}

ServePromptCalls ==
    {<<"ethical_decision_making", Dict([situation |-> Word("X")])>>,
     <<"ethical_decision_making", PyNone>>,
     <<"summarise", PyNone>>}

ServeUris == {FRAMEWORKS_ALL, FrameworkUri("care")}

\* mutant: the completion call is made without await and holds the loop
CompletionCallPc_blocking == "blocking"

\* where a coroutine is after "await client.chat.completions.create(...)"
\* has sent the request: suspended, the loop free to run other handlers
CompletionCallPc == "awaiting"

\* no coroutine holds the event loop
LoopFree == \A s \in Slots : inflight[s].pc # "blocking"

\* the slots of the suspended calls
Busy == {s \in Slots : inflight[s].pc # "free"}

\* mutant: list_resources appends to a list that outlives the call
HandlerResult_accumulating(op, input) ==
    CASE op = "list_tools" -> list_tools
      [] op = "list_resources" ->
            IF seen.op = "list_resources"
            THEN list_resources
                   \o [i \in DOMAIN ResponsibleAiKeys |->
                         ResponsibleAiResource(ResponsibleAiKeys[i])]
            ELSE list_resources
      [] op = "list_prompts" -> list_prompts
      [] OTHER -> get_prompt(input[1], input[2])

\* what a listing handler or get_prompt returns to the call (op, input)
HandlerResult(op, input) ==
    CASE op = "list_tools" -> list_tools
      [] op = "list_resources" -> list_resources
      [] op = "list_prompts" -> list_prompts
      [] OTHER -> get_prompt(input[1], input[2])

\* a listing handler or get_prompt runs; the call may be the one remembered
\* in seen for comparison with later calls
Serve(op, input) ==
    LET result == HandlerResult(op, input)
    IN  /\ LoopFree
        /\ last' = [op |-> op, input |-> input, result |-> result, busy |-> Busy]
        /\ seen' \in IF seen = NotSeen
                     THEN {NotSeen, [op |-> op, input |-> input, result |-> result,
                                     built |-> built]}
                     ELSE {seen}
        /\ UNCHANGED <<env, OPENAI_MODEL, configVars, openai_client, built, sawAbsent, inflight>>

ServeListTools == Serve("list_tools", <<>>)
ServeListResources == Serve("list_resources", <<>>)
ServeListPrompts == Serve("list_prompts", <<>>)
ServeGetPrompt == \E call \in ServePromptCalls : Serve("get_prompt", call)

ServeReadResource ==
    /\ LoopFree
    /\ \E uri_str \in ServeUris :
         last' = [op |-> "read_resource", uri |-> uri_str,
                  result |-> read_resource(uri_str), busy |-> Busy]
    /\ UNCHANGED <<env, OPENAI_MODEL, configVars, openai_client, built, sawAbsent, serveVars>>

\* a call of call_tool starts and runs up to the completion call, where it
\* is suspended in slot s, or up to its return when it does not get there
StartCall(s) ==
    /\ LoopFree
    /\ inflight[s].pc = "free"
    /\ \E call \in ServeToolCalls :
         LET name == call[1]
             arguments == call[2]
             d == Dispatch(name, arguments)
             g == get_openai_client(env, openai_client, built)
         IN  IF d.status = "prompt" /\ ~IsNone(g.ret)
             THEN /\ inflight' = [inflight EXCEPT ![s] =
                                    [pc |-> CompletionCallPc, name |-> name,
                                     arguments |-> arguments, client |-> g.ret,
                                     constructed |-> g.built > built,
                                     behind |-> Busy # {}]]
                  /\ openai_client' = g.client
                  /\ built' = g.built
                  /\ UNCHANGED last
             ELSE LET r == call_tool(name, arguments, env, openai_client, built,
                                     ModelUsed, NoOutcome)
                  IN  /\ last' = [op |-> "call_tool", name |-> name,
                                  arguments |-> arguments, raised |-> r.raised,
                                  content |-> r.content, requests |-> r.requests,
                                  busy |-> Busy, behind |-> Busy # {}]
                      /\ openai_client' = r.client
                      /\ built' = r.built
                      /\ UNCHANGED inflight
    /\ UNCHANGED <<env, OPENAI_MODEL, configVars, sawAbsent, seen>>

\* the endpoint answers the request of the call in slot s, which resumes and
\* runs to its return
Resume(s) ==
    /\ inflight[s].pc # "free"
    /\ \A o \in Slots \ {s} : inflight[o].pc # "blocking"
    /\ \E outcome \in ServeOutcomes :
         last' = [op |-> "call_tool", name |-> inflight[s].name,
                  arguments |-> inflight[s].arguments, raised |-> "",
                  content |-> <<TextContent(AfterCompletion(Subject(inflight[s].name),
                                                            outcome))>>,
                  requests |-> <<[client |-> inflight[s].client]>>,
                  busy |-> Busy \ {s}, behind |-> inflight[s].behind]
    /\ inflight' = [inflight EXCEPT ![s] = Free]
    /\ UNCHANGED <<env, OPENAI_MODEL, configVars, openai_client, built, sawAbsent, seen>>

NextServe ==
    \/ SetEnv
    \/ \E s \in Slots : StartCall(s)
    \/ \E s \in Slots : Resume(s)
    \/ ServeListTools \/ ServeListResources \/ ServeListPrompts
    \/ ServeGetPrompt \/ ServeReadResource

SpecServe == Init /\ [][NextServe]_vars

(***************************************************************************)
(* Calls made while the configuration in the environment changes.  Both    *)
(* OPENAI_API_KEY and OPENAI_MODEL can be assigned or removed at any time  *)
(* after the module was imported.                                          *)
(***************************************************************************)
ConfigToolCalls ==
    {<<"check_bias", Dict([context |-> Word("s1"), bias_types |-> Absent])>>,
     <<"analyze_ethical_scenario", Dict([scenario |-> Absent, frameworks |-> Absent])>>}

ConfigOutcomes ==
    {Raised("Connection error."),
     Response(PyList(<<[message |-> Message(PyStr(<<"a">>))]>>))}

\* os.environ["OPENAI_MODEL"] is assigned or removed
SetModelEnv ==
    /\ \E m \in ModelOverrides \cup {Word("gpt-4.1")} : m # envModel /\ envModel' = m
    /\ UNCHANGED <<env, OPENAI_MODEL, openai_client, built, sawAbsent, last,
                   serveVars, firstUse>>

\* mutant: a call that repeats the remembered call returns the remembered
\* content without a request
ConfigCall_cached ==
    \E call \in ConfigToolCalls :
      \E outcome \in
            IF Dispatch(call[1], call[2]).status = "prompt"
                 /\ ~IsNone(get_openai_client(env, openai_client, built).ret)
            THEN ConfigOutcomes ELSE {NoOutcome} :
        LET r == call_tool(call[1], call[2], env, openai_client, built,
                           ModelUsed, outcome)
            hit == /\ seen.op = "call_tool" /\ seen.name = call[1]
                   /\ seen.arguments = call[2] /\ seen.present = Truthy(env)
        IN  /\ openai_client' = r.client
            /\ built' = r.built
            /\ sawAbsent' = (sawAbsent \/ (r.gateway > 0 /\ ~Truthy(env)))
            /\ firstUse' = IF r.gateway > 0 /\ ~firstUse.used
                           THEN [used |-> TRUE, env |-> env, envModel |-> envModel]
                           ELSE firstUse
            /\ last' = [op |-> "call_tool", name |-> call[1],
                        arguments |-> call[2], outcome |-> outcome,
                        env |-> env, env_model |-> envModel,
                        client_before |-> openai_client,
                        first |-> ~firstUse.used,
                        raised |-> r.raised,
                        content |-> IF hit THEN seen.content ELSE r.content,
                        gateway |-> r.gateway,
                        requests |-> IF hit THEN <<>> ELSE r.requests,
                        built |-> r.built - built]
            /\ seen' \in IF seen = NotSeen
                         THEN {NotSeen,
                               [op |-> "call_tool", name |-> call[1],
                                arguments |-> call[2], present |-> Truthy(env),
                                outcome |-> outcome, raised |-> r.raised,
                                content |-> r.content, requests |-> r.requests]}
                         ELSE {seen}
            /\ UNCHANGED <<env, OPENAI_MODEL, envModel, inflight>>

\* one call of call_tool, from the call to its return; the call may be the
\* one remembered in seen for comparison with later calls
ConfigCall ==
    \E call \in ConfigToolCalls :
      \E outcome \in
            IF Dispatch(call[1], call[2]).status = "prompt"
                 /\ ~IsNone(get_openai_client(env, openai_client, built).ret)
            THEN ConfigOutcomes ELSE {NoOutcome} :
        LET r == call_tool(call[1], call[2], env, openai_client, built,
                           ModelUsed, outcome)
        IN  /\ openai_client' = r.client
            /\ built' = r.built
            /\ sawAbsent' = (sawAbsent \/ (r.gateway > 0 /\ ~Truthy(env)))
            /\ firstUse' = IF r.gateway > 0 /\ ~firstUse.used
                           THEN [used |-> TRUE, env |-> env, envModel |-> envModel]
                           ELSE firstUse
            /\ last' = [op |-> "call_tool", name |-> call[1],
                        arguments |-> call[2], outcome |-> outcome,
                        env |-> env, env_model |-> envModel,
                        client_before |-> openai_client,
                        first |-> ~firstUse.used,
                        raised |-> r.raised, content |-> r.content,
                        gateway |-> r.gateway, requests |-> r.requests,
                        built |-> r.built - built]
            /\ seen' \in IF seen = NotSeen
                         THEN {NotSeen,
                               [op |-> "call_tool", name |-> call[1],
                                arguments |-> call[2], present |-> Truthy(env),
                                outcome |-> outcome, raised |-> r.raised,
                                content |-> r.content, requests |-> r.requests]}
                         ELSE {seen}
            /\ UNCHANGED <<env, OPENAI_MODEL, envModel, inflight>>

NextConfig == SetEnv \/ SetModelEnv \/ ConfigCall

SpecConfig == Init /\ [][NextConfig]_vars

(***************************************************************************)
(* Properties                                                              *)
(***************************************************************************)
IsTool(name) == \E i \in DOMAIN ToolNames : ToolNames[i] = name

ToolCall == last.op = "call_tool"

\* the call returned exactly one text content item
OneItem == last.raised = "" /\ Len(last.content) = 1 /\ last.content[1].type = "text"

ResultText == last.content[1].text

\* the arguments are a mapping whose values have the declared types: each is
\* a str or a list of str
WellTyped(arguments) ==
    /\ arguments.t = "dict"
    /\ \A k \in DOMAIN arguments.d :
         \/ arguments.d[k].t \in {"absent", "str"}
         \/ /\ arguments.d[k].t = "list"
            /\ \A i \in DOMAIN arguments.d[k].l : arguments.d[k].l[i].t = "str"

\* the required arguments of the tool that are absent or empty in the call
Missing(name, arguments) ==
    {a \in Required(name) : ~Truthy(Get(arguments, a, PyNone))}

IsWarningText(text) == text[1] \in {"Warning: The '", "Warning: '"}

\* C1 (as claimed): for every tool name and every argument value, including
\* no argument mapping and selector arguments that are null or not lists of
\* strings, call_tool returns content and no exception escapes.
C1_NoExceptionEscapes ==
    ToolCall => last.raised = "" /\ Len(last.content) >= 1

\* C2: a call of one of the five tools whose argument mapping lacks a
\* required argument, or holds an empty value for it, returns exactly one
\* warning item whose text names every such argument, and the gateway is not
\* called.
C2_MissingRequiredWarns ==
    (ToolCall /\ IsTool(last.name) /\ last.arguments.t = "dict"
       /\ Missing(last.name, last.arguments) # {})
    => /\ OneItem
       /\ IsWarningText(ResultText)
       /\ \A a \in Missing(last.name, last.arguments) : Contains(ResultText, a)
       /\ last.gateway = 0
       /\ last.requests = <<>>
       /\ last.built = 0

C2_Witness ==
    /\ ToolCall /\ last.name = "evaluate_ai_system" /\ last.arguments.t = "dict"
    /\ Missing(last.name, last.arguments) = {"use_case"}
    /\ last.arguments.d.stakeholders.t = "int"
    /\ Truthy(last.env)
    /\ OneItem /\ Contains(ResultText, "use_case") /\ last.gateway = 0

\* C3: for a name that is none of the five tools, whatever the arguments,
\* call_tool raises nothing, returns the single text item
\* "Unknown tool: <name>" and does not call the gateway.
C3_UnknownToolIsContent ==
    (ToolCall /\ ~IsTool(last.name))
    => /\ OneItem
       /\ ResultText = <<"Unknown tool: ", last.name>>
       /\ last.gateway = 0
       /\ last.requests = <<>>
       /\ last.built = 0

C3_Witness ==
    /\ ToolCall /\ last.name = "Check_Bias" /\ last.arguments.t = "None"
    /\ OneItem /\ ResultText = <<"Unknown tool: ", "Check_Bias">>

\* the URIs the resolver is specified to serve: the reserved URIs, and the
\* frameworks prefix followed by exactly a key of one of the two tables
ServedUri(uri) ==
    \/ uri \in {FRAMEWORKS_ALL, GUIDELINES_AI_ETHICS,
                <<"ethicist:", "", "frameworks", "responsible_ai">>}
    \/ /\ Len(uri) = 4
       /\ SubSeq(uri, 1, 3) = <<"ethicist:", "", "frameworks">>
       /\ uri[4] \in DOMAIN ETHICAL_FRAMEWORKS \cup DOMAIN RESPONSIBLE_AI_FRAMEWORKS

\* C4 (as claimed): for a URI that is neither reserved nor the frameworks
\* prefix followed by a known key, read_resource returns no content and
\* raises an error whose message names the requested URI.
C4_UnknownUriRaisesNamingUri ==
    (last.op = "read_resource" /\ ~ServedUri(last.uri))
    => last.result.raised /\ last.result.arg = last.uri

\* C5: with no credential configured, a call of one of the five tools with
\* all required arguments (and arguments of the declared types) returns
\* exactly one item, the tier-1 fallback, which contains the subject label
\* of the tool; no request is issued and no client is constructed.
C5_NoCredentialTier1 ==
    (ToolCall /\ IsTool(last.name) /\ WellTyped(last.arguments)
       /\ Missing(last.name, last.arguments) = {} /\ ~Truthy(last.env))
    => /\ OneItem
       /\ Len(ResultText) = 3
       /\ ResultText[1] = API_KEY_WARNING
       /\ Contains(ResultText, Subject(last.name))
       /\ last.gateway = 1
       /\ last.requests = <<>>
       /\ last.built = 0
       /\ openai_client = last.client_before

C5_Witness ==
    /\ ToolCall /\ last.name = "generate_ethical_guidelines"
    /\ WellTyped(last.arguments) /\ Missing(last.name, last.arguments) = {}
    /\ last.env.t = "None"
    /\ OneItem /\ ResultText[2] = "Project ethical guidelines"
    /\ last.requests = <<>>

\* C6: when the completion call raises, the call of call_tool raises
\* nothing and returns one item, the tier-2 fallback, whose text holds the
\* subject and the text of the error.
C6_EndpointErrorTier2 ==
    (ToolCall /\ last.outcome.kind = "raise")
    => /\ OneItem
       /\ ResultText[1] = "Warning: Encountered an error while contacting OpenAI.\n\nSubject: "
       /\ Contains(ResultText, Subject(last.name))
       /\ Contains(ResultText, last.outcome.exc)
       /\ Len(last.requests) = 1

C6_Witness ==
    /\ ToolCall /\ last.name = "assess_transparency"
    /\ last.outcome.kind = "raise"
    /\ OneItem
    /\ Contains(ResultText, "Rate limit reached")
    /\ Contains(ResultText, "Transparency assessment")

\* the text the response carries, <<>> when it carries none
ResponseText(outcome) ==
    IF outcome.choices.t # "list" \/ outcome.choices.l = <<>> THEN <<>>
    ELSE LET m == outcome.choices.l[1].message
         IN  IF m.t # "message" THEN <<>>
             ELSE IF m.content.t # "str" THEN <<>> ELSE m.content.s

Blank(text) == \A i \in DOMAIN text : text[i] \in Whitespace

\* C7: when the completion call returns without usable text (no choices, no
\* message, no content, or content that is empty or all whitespace), the
\* text returned is the tier-3 fallback holding the subject, and is not
\* empty.
C7_EmptyCompletionTier3 ==
    (ToolCall /\ last.outcome.kind = "response"
       /\ Blank(ResponseText(last.outcome)))
    => /\ OneItem
       /\ ResultText # <<>>
       /\ ResultText[1] = "Warning: OpenAI returned an empty response.\n\nSubject: "
       /\ Contains(ResultText, Subject(last.name))

C7_Witness ==
    /\ ToolCall /\ last.outcome.kind = "response"
    /\ ResponseText(last.outcome) = <<" ", "\n">>
    /\ OneItem
    /\ ResultText[2] = Subject(last.name)

\* trimmed is text without its leading and trailing whitespace and with
\* nothing else changed
IsTrimOf(trimmed, text) ==
    \E i, j \in DOMAIN text :
      /\ i <= j
      /\ text[i] \notin Whitespace /\ text[j] \notin Whitespace
      /\ \A k \in DOMAIN text : (k < i \/ k > j) => text[k] \in Whitespace
      /\ trimmed = SubSeq(text, i, j)

\* C8: when the completion call returns text that is not empty or all
\* whitespace, call_tool returns one item whose text is that text without
\* its leading and trailing whitespace, nothing else changed.
C8_CompletionTextTrimmed ==
    (ToolCall /\ last.outcome.kind = "response"
       /\ ~Blank(ResponseText(last.outcome)))
    => /\ OneItem
       /\ IsTrimOf(ResultText, ResponseText(last.outcome))

C8_Witness ==
    /\ ToolCall /\ last.outcome.kind = "response"
    /\ ResponseText(last.outcome) = <<"\n", "a", " ">>
    /\ OneItem /\ ResultText = <<"a">>

C8_WitnessInner ==
    /\ ToolCall /\ last.outcome.kind = "response"
    /\ ResponseText(last.outcome) = <<"a", " ", "a">>
    /\ OneItem /\ ResultText = <<"a", " ", "a">>

\* the scenario of C9: check_bias with a context, no bias_types, and no
\* credential configured
C9_Scenario ==
    /\ ToolCall /\ last.name = "check_bias" /\ last.arguments.t = "dict"
    /\ last.arguments.d.context = Word("Historical hiring data")
    /\ last.arguments.d.bias_types.t = "absent"
    /\ ~Truthy(last.env)

AfterAbsence == ToolCall /\ last.gateway = 1 /\ last.saw_absent_before

C11_ClientBuiltOnce ==
    /\ built <= 1
    /\ openai_client.t = "client" => openai_client.id = 1
    /\ (ToolCall /\ last.requests # <<>>)
       => /\ last.requests[1].client = openai_client
          /\ last.requests[1].client.id = 1
          /\ last.client_before.t = "client" => openai_client = last.client_before

C11_Witness ==
    /\ ToolCall /\ last.requests # <<>>
    /\ last.client_before.t = "client"
    /\ last.requests[1].client.api_key # last.env.s
    /\ last.requests[1].client = last.client_before
    /\ built = 1

\* C14: a call of call_tool calls the gateway at most once, and exactly once
\* when the tool is known and its required arguments are present (the
\* arguments having the declared types); a gateway call issues at most one
\* request, and exactly one also when the completion call raised or
\* returned no usable text.
C14_OneGatewayCallOneRequest ==
    ToolCall
    => /\ last.gateway \in {0, 1}
       /\ Len(last.requests) <= last.gateway
       /\ (IsTool(last.name) /\ WellTyped(last.arguments)
             /\ Missing(last.name, last.arguments) = {})
          => last.gateway = 1
       /\ last.outcome.kind # "none" => Len(last.requests) = 1

C14_Witness ==
    /\ ToolCall /\ last.outcome.kind = "raise"
    /\ last.gateway = 1 /\ Len(last.requests) = 1
    /\ OneItem

\* C15 (as claimed): for a URI under the frameworks prefix (the reserved
\* URIs aside) the key is the whole remainder of the URI; read_resource
\* returns the serialized entry of ETHICAL_FRAMEWORKS when it has the key,
\* else that of RESPONSIBLE_AI_FRAMEWORKS when it has the key, else raises.
C15_KeyIsWholeRemainder ==
    (last.op = "read_resource" /\ StartsWithFrameworks(last.uri)
       /\ last.uri \notin {FRAMEWORKS_ALL, FrameworkUri("responsible_ai")})
    => IF Len(last.uri) = 4 /\ last.uri[4] \in DOMAIN ETHICAL_FRAMEWORKS
       THEN last.result = Returned(json_dumps(ETHICAL_FRAMEWORKS[last.uri[4]]))
       ELSE IF Len(last.uri) = 4 /\ last.uri[4] \in DOMAIN RESPONSIBLE_AI_FRAMEWORKS
       THEN last.result = Returned(json_dumps(RESPONSIBLE_AI_FRAMEWORKS[last.uri[4]]))
       ELSE last.result.raised

ListedUris == {list_resources[i].uri : i \in DOMAIN list_resources}

\* the part of the knowledge base a listed URI stands for
Designated(uri) ==
    CASE uri = FRAMEWORKS_ALL -> ETHICAL_FRAMEWORKS
      [] uri = GUIDELINES_AI_ETHICS -> AI_ETHICS_GUIDELINES
      [] uri = FrameworkUri("responsible_ai") -> RESPONSIBLE_AI_FRAMEWORKS
      [] uri[4] \in DOMAIN ETHICAL_FRAMEWORKS -> ETHICAL_FRAMEWORKS[uri[4]]
      [] OTHER -> RESPONSIBLE_AI_FRAMEWORKS[uri[4]]

\* the return statements of read_resource whose own condition the URI meets
ReturningBranches(uri) ==
    {b \in 1..5 :
        CASE b = 1 -> uri = FRAMEWORKS_ALL
          [] b = 2 -> uri = GUIDELINES_AI_ETHICS
          [] b = 3 -> StartsWithFrameworks(uri) /\ LastSegment(uri) = "responsible_ai"
          [] b = 4 -> StartsWithFrameworks(uri)
                        /\ LastSegment(uri) \in DOMAIN ETHICAL_FRAMEWORKS
          [] OTHER -> StartsWithFrameworks(uri)
                        /\ LastSegment(uri) \in DOMAIN RESPONSIBLE_AI_FRAMEWORKS}

\* C16: read_resource resolves every URI list_resources returns without
\* error, through exactly one branch, to the serialization of the part of
\* the knowledge base the URI stands for.
C16_ListedUrisResolve ==
    (last.op = "read_resource" /\ last.uri \in ListedUris)
    => /\ ~last.result.raised
       /\ last.result.text = json_dumps(Designated(last.uri))
       /\ Cardinality(ReturningBranches(last.uri)) = 1

C16_Witness ==
    /\ last.op = "read_resource" /\ last.uri = FrameworkUri("nist_ai_rmf")
    /\ last.uri \in ListedUris
    /\ ~last.result.raised
    /\ last.result.text.obj.name = "NIST AI Risk Management Framework"

ListedToolNames == {list_tools[i].name : i \in DOMAIN list_tools}

\* call_tool took the else branch
UnknownToolResult ==
    last.raised = "" /\ Len(last.content) = 1
      /\ last.content[1].text[1] = "Unknown tool: "

\* C17: list_tools returns exactly 5 entries with distinct names, and
\* call_tool routes a name to a handler branch exactly when list_tools
\* lists it; every other name gets the unknown-tool result.
C17_ListedToolsAreDispatched ==
    /\ last.op = "list_tools"
       => /\ Len(last.result) = 5
          /\ \A i, j \in DOMAIN last.result :
               last.result[i].name = last.result[j].name => i = j
    /\ ToolCall => (last.name \in ListedToolNames <=> ~UnknownToolResult)

C17_Witness ==
    /\ last.op = "list_tools" /\ Len(last.result) = 5
    /\ last.result[5].name = "assess_transparency"

\* C18: the URIs list_resources returns include ethicist://frameworks/<key>
\* for every key of ETHICAL_FRAMEWORKS and of RESPONSIBLE_AI_FRAMEWORKS.
C18_EveryFrameworkListed ==
    last.op = "list_resources"
    => \A key \in DOMAIN ETHICAL_FRAMEWORKS \cup DOMAIN RESPONSIBLE_AI_FRAMEWORKS :
         \E i \in DOMAIN last.result : last.result[i].uri = FrameworkUri(key)

C18_Witness ==
    /\ last.op = "list_resources" /\ Len(last.result) = 13
    /\ last.result[13].uri = FrameworkUri("responsible_ai_additional_references")
    /\ last.result[6].uri = FrameworkUri("social_contract")

ListedPromptNames == {list_prompts[i].name : i \in DOMAIN list_prompts}

\* C19: list_prompts returns the three identifiers; get_prompt returns a
\* template result for exactly those and, for any other identifier and any
\* arguments, raises an error that names the identifier.
C19_UnknownPromptRaises ==
    /\ last.op = "list_prompts"
       => {last.result[i].name : i \in DOMAIN last.result}
            = {"ethical_decision_making", "stakeholder_analysis", "ai_risk_assessment"}
    /\ last.op = "get_prompt"
       => IF last.name \in ListedPromptNames
          THEN /\ ~last.result.raised
               /\ Len(last.result.messages) = 1
               /\ last.result.messages[1].content.text # <<>>
          ELSE /\ last.result.raised
               /\ last.result.what = "Unknown prompt: "
               /\ last.result.arg = <<last.name>>

C19_Witness ==
    /\ last.op = "get_prompt" /\ last.name = "summarise"
    /\ last.arguments.t = "dict" /\ last.arguments.d.situation = Word("X")
    /\ last.result.raised /\ last.result.arg = <<"summarise">>

\* C12: with calls of call_tool in flight at the same time, at most one
\* client is constructed, and every call in flight or completed holds that
\* one instance, the cached one.
C12_RacingCallsShareClient ==
    /\ built <= 1
    /\ \A s \in Busy :
         inflight[s].client = openai_client /\ inflight[s].client.id = 1
    /\ (last.op = "call_tool" /\ last.requests # <<>>)
       => last.requests[1].client = openai_client

C12_Witness ==
    /\ built = 1
    /\ \E s1, s2 \in Busy :
         /\ s1 # s2
         /\ inflight[s1].constructed /\ ~inflight[s1].behind
         /\ inflight[s2].behind /\ ~inflight[s2].constructed
         /\ inflight[s1].client = inflight[s2].client

\* C13: while a call of call_tool is suspended at the completion call, each
\* of list_tools, list_resources, list_prompts, read_resource and get_prompt
\* can run, another call of call_tool can start, and every suspended call
\* can be resumed and completed whatever the others do.
C13_SuspendedCallBlocksOnlyItself ==
    Busy # {}
    => /\ ENABLED ServeListTools
       /\ ENABLED ServeListResources
       /\ ENABLED ServeListPrompts
       /\ ENABLED ServeReadResource
       /\ ENABLED ServeGetPrompt
       /\ \A s \in Slots \ Busy : ENABLED StartCall(s)
       /\ \A s \in Busy : ENABLED Resume(s)

C13_Witness ==
    /\ Busy # {}
    /\ last.op = "call_tool" /\ last.requests # <<>>
    /\ last.behind /\ last.busy # {}

StableOps == {"list_tools", "list_resources", "list_prompts", "get_prompt"}

\* the call that has just run repeats the remembered call
Repeated == last.op \in StableOps /\ seen.op = last.op /\ seen.input = last.input

Failed == last.op = "get_prompt" /\ last.result.raised

PromptHoles(name) ==
    CASE name = "ethical_decision_making" ->
           <<[key |-> "situation", placeholder |-> <<"a difficult choice">>,
              before |-> "I need help thinking through an ethical decision: ",
              after |-> DECISION_TEMPLATE]>>
      [] name = "stakeholder_analysis" ->
           <<[key |-> "decision", placeholder |-> <<"this decision">>,
              before |-> "I need to analyse stakeholders for: ",
              after |-> STAKEHOLDER_TEMPLATE]>>
      [] name = "ai_risk_assessment" ->
           <<[key |-> "system_description", placeholder |-> <<"an AI system">>,
              before |-> "I need to assess ethical risks for: ",
              after |-> "\nDeployment context: "],
             [key |-> "deployment_context", placeholder |-> <<"various contexts">>,
              before |-> "\nDeployment context: ",
              after |-> RISK_TEMPLATE]>>
      [] OTHER -> <<>>

IndexOf(text, tok) == CHOOSE i \in 1..Len(text) : text[i] = tok

\* what the text holds between two pieces of the template
Position(text, before, after) ==
    SubSeq(text, IndexOf(text, before) + 1, IndexOf(text, after) - 1)

Supplied(arguments, key) ==
    /\ arguments.t = "dict"
    /\ key \in DOMAIN arguments.d
    /\ arguments.d[key].t # "absent"

PromptText(result) == result.messages[1].content.text

KnownPromptCall == last.op = "get_prompt" /\ last.name \in ListedPromptNames

\* C21 (as claimed): get_prompt for a known identifier fills every position
\* whose argument is not supplied with the placeholder phrase, and no
\* position is ever filled with the empty string.
C21_NoEmptyPosition ==
    KnownPromptCall
    => /\ ~last.result.raised
       /\ \A i \in DOMAIN PromptHoles(last.name) :
            LET h == PromptHoles(last.name)[i]
                filled == Position(PromptText(last.result), h.before, h.after)
            IN  /\ ~Supplied(last.arguments, h.key) => filled = h.placeholder
                /\ filled # <<>>

\* C21 (amended): get_prompt for a known identifier fills every position
\* whose argument is not supplied (no mapping, an empty mapping, or a mapping
\* lacking the key) with the placeholder phrase; a position is filled with
\* the empty string only when the caller supplied the empty string for it.
C21_PlaceholderWhenNotSupplied ==
    KnownPromptCall
    => /\ ~last.result.raised
       /\ \A i \in DOMAIN PromptHoles(last.name) :
            LET h == PromptHoles(last.name)[i]
                filled == Position(PromptText(last.result), h.before, h.after)
            IN  /\ ~Supplied(last.arguments, h.key) => filled = h.placeholder
                /\ filled = <<>>
                   => /\ Supplied(last.arguments, h.key)
                      /\ last.arguments.d[h.key] = EmptyStr

C21_Witness ==
    /\ KnownPromptCall /\ last.name = "ai_risk_assessment"
    /\ Supplied(last.arguments, "system_description")
    /\ last.arguments.d["system_description"] = EmptyStr
    /\ ~Supplied(last.arguments, "deployment_context")
    /\ PromptText(last.result)
         = <<"I need to assess ethical risks for: ", "\nDeployment context: ",
             "various contexts", RISK_TEMPLATE>>

\* the arguments list_prompts declares required for a prompt
RequiredPromptArguments(name) ==
    {a.name : a \in
       UNION {{p.arguments[j] : j \in {k \in DOMAIN p.arguments : p.arguments[k].required}} :
                p \in {list_prompts[i] : i \in {k \in DOMAIN list_prompts :
                                                   list_prompts[k].name = name}}}}

\* C28: get_prompt for a known identifier does not fail when an argument
\* list_prompts declares required is omitted or no mapping is passed; it
\* returns the template with the placeholder phrase in that position.
C28_RequiredNotValidated ==
    KnownPromptCall
    => \A i \in DOMAIN PromptHoles(last.name) :
         LET h == PromptHoles(last.name)[i]
         IN  (h.key \in RequiredPromptArguments(last.name)
              /\ ~Supplied(last.arguments, h.key))
             => /\ ~last.result.raised
                /\ Position(PromptText(last.result), h.before, h.after) = h.placeholder

C28_Witness ==
    /\ KnownPromptCall /\ last.name = "ai_risk_assessment"
    /\ "system_description" \in RequiredPromptArguments(last.name)
    /\ ~Supplied(last.arguments, "system_description")
    /\ Supplied(last.arguments, "deployment_context")
    /\ ~last.result.raised
    /\ PromptText(last.result)
         = <<"I need to assess ethical risks for: ", "an AI system",
             "\nDeployment context: ", "Y", RISK_TEMPLATE>>

\* the selector argument of a tool and the keys its knowledge table holds
Selector(name) ==
    IF name = "analyze_ethical_scenario"
    THEN [key |-> "frameworks", known |-> DOMAIN ETHICAL_FRAMEWORKS]
    ELSE [key |-> "bias_types", known |-> DOMAIN bias_descriptions]

RecognisedKey(v, known) == Len(v.s) = 1 /\ v.s[1] \in known

\* the call that has just run passed a list of strings as selector, with a
\* key the table does not hold, and got past validation
UnknownSelectorCall ==
    /\ ToolCall /\ last.name \in {"analyze_ethical_scenario", "check_bias"}
    /\ WellTyped(last.arguments)
    /\ Missing(last.name, last.arguments) = {}
    /\ LET sel == Selector(last.name)
           v == Get(last.arguments, sel.key, Absent)
       IN  /\ v.t = "list"
           /\ \E i \in DOMAIN v.l : ~RecognisedKey(v.l[i], sel.known)

\* the arguments of the last call without the unrecognised selector keys
WithoutUnknown ==
    LET sel == Selector(last.name)
        v == last.arguments.d[sel.key]
        kept == SelectSeq(v.l, LAMBDA x : RecognisedKey(x, sel.known))
    IN  [t |-> "dict", d |-> [last.arguments.d EXCEPT ![sel.key] = PyList(kept)]]

\* C22 (as claimed): a call of analyze_ethical_scenario or check_bias with
\* selector keys the tables do not recognise returns one item that is no
\* warning, raises nothing, and sends the prompt it would send without those
\* keys.
C22_UnknownSelectorsDropped ==
    UnknownSelectorCall
    => /\ OneItem /\ ~IsWarningText(ResultText)
       /\ last.requests # <<>>
          => last.requests[1].user = Dispatch(last.name, WithoutUnknown).prompt

\* the optional argument of a tool that has a default other than empty, and
\* that default
Defaulted(name) ==
    CASE name = "analyze_ethical_scenario" ->
           [key |-> "frameworks",
            default |-> PyList([i \in DOMAIN FrameworkKeys |-> Word(FrameworkKeys[i])])]
      [] name = "check_bias" ->
           [key |-> "bias_types",
            default |-> PyList([i \in DOMAIN BiasTypes |-> Word(BiasTypes[i])])]
      [] OTHER ->
           [key |-> "risk_level", default |-> Word("medium")]

\* the call that has just run left the defaulted argument of its tool out of
\* a well-typed mapping that holds the required arguments
UnsetOptionalCall ==
    /\ ToolCall
    /\ last.name \in {"analyze_ethical_scenario", "check_bias",
                      "generate_ethical_guidelines"}
    /\ WellTyped(last.arguments)
    /\ Missing(last.name, last.arguments) = {}
    /\ Get(last.arguments, Defaulted(last.name).key, Absent) = Absent

\* the arguments of the last call with the default passed explicitly
WithDefault ==
    [t |-> "dict",
     d |-> [k \in DOMAIN last.arguments.d \cup {Defaulted(last.name).key} |->
              IF k = Defaulted(last.name).key THEN Defaulted(last.name).default
              ELSE last.arguments.d[k]]]

\* C23: a call that leaves frameworks, bias_types or risk_level unset returns
\* one item, and the prompt it sends is the prompt of the same call with all
\* four frameworks, all five bias types or "medium" passed explicitly.
C23_UnsetTakesDefault ==
    UnsetOptionalCall
    => /\ OneItem
       /\ Dispatch(last.name, WithDefault).status = "prompt"
       /\ last.requests # <<>>
          => last.requests[1].user = Dispatch(last.name, WithDefault).prompt

C23_Witness ==
    /\ UnsetOptionalCall /\ last.name = "analyze_ethical_scenario"
    /\ last.requests # <<>>
    /\ \A i \in DOMAIN FrameworkKeys :
         Contains(last.requests[1].user, ETHICAL_FRAMEWORKS[FrameworkKeys[i]].name)

\* a call of SpecConfig that reached the gateway
ConfigGatewayCall == ToolCall /\ last.gateway = 1 /\ firstUse.used

ReadOnlyOps ==
    {"list_tools", "list_resources", "list_prompts", "read_resource", "get_prompt"}

\* C25: no step of a handler changes the model name or the environment; the
\* cached client changes only in a step of call_tool that called the
\* gateway; a step of list_tools, list_resources, list_prompts, read_resource
\* or get_prompt changes nothing but the result handed to its caller.
C25_OnlyCallToolChangesClient ==
    [][/\ OPENAI_MODEL' = OPENAI_MODEL
       /\ (last' # last) => env' = env
       /\ (openai_client' # openai_client \/ built' # built)
          => last'.op = "call_tool" /\ last'.gateway = 1
       /\ (last' # last /\ last'.op \in ReadOnlyOps)
          => UNCHANGED <<env, OPENAI_MODEL, openai_client, built, sawAbsent>>]_vars

C25_Witness ==
    /\ last.op = "read_resource" /\ ~last.result.raised
    /\ ~IsNone(openai_client) /\ built = 1

\* the call that has just run has the name, the arguments and the
\* credential presence of the remembered call
RepeatedToolCall ==
    /\ ToolCall /\ seen.op = "call_tool"
    /\ seen.name = last.name /\ seen.arguments = last.arguments
    /\ seen.present = Truthy(last.env)

\* C26: a call of call_tool with the name, arguments and credential presence
\* of an earlier call sends the same prompt, in a request of its own, and
\* returns the same content when the endpoint does the same; when the
\* endpoint does something else the content is that of the new outcome.
C26_NoDependenceOnEarlierCalls ==
    RepeatedToolCall
    => /\ last.raised = seen.raised
       /\ Len(last.requests) = Len(seen.requests)
       /\ last.gateway = 1 /\ Truthy(last.env) => Len(last.requests) = 1
       /\ last.requests # <<>> => last.requests[1].user = seen.requests[1].user
       /\ last.outcome = seen.outcome => last.content = seen.content
       /\ last.outcome # seen.outcome => last.content # seen.content

C26_Witness ==
    /\ RepeatedToolCall /\ ~last.first
    /\ ~IsNone(last.client_before)
    /\ last.env # firstUse.env
    /\ last.requests # <<>> /\ seen.requests # <<>>
    /\ last.outcome # seen.outcome
    /\ seen.outcome.kind = "response" /\ last.outcome.kind = "raise"
    /\ last.content # seen.content

\* C27: a gateway call made when a client exists already returns the tier-1
\* fallback without a request if the credential is absent or empty at that
\* call, and otherwise sends its request with the existing client; either
\* way no client is constructed and the cached client stays the same.
C27_PresenceDecidedEachCall ==
    (ToolCall /\ WellTyped(last.arguments) /\ last.gateway = 1
       /\ ~IsNone(last.client_before))
    => /\ last.built = 0
       /\ openai_client = last.client_before
       /\ IF Truthy(last.env)
          THEN /\ Len(last.requests) = 1
               /\ last.requests[1].client = last.client_before
          ELSE /\ last.requests = <<>>
               /\ OneItem /\ ResultText = Tier1Text(Subject(last.name))

C27_Witness ==
    /\ ToolCall /\ last.gateway = 1
    /\ ~IsNone(last.client_before) /\ last.saw_absent_before
    /\ Truthy(last.env) /\ last.env.s # last.client_before.api_key
    /\ last.requests # <<>> /\ last.requests[1].client = last.client_before
    /\ built = 1

C27_WitnessRemoved ==
    /\ ToolCall /\ last.gateway = 1
    /\ ~IsNone(last.client_before) /\ last.env = EmptyStr
    /\ last.requests = <<>> /\ openai_client = last.client_before

=============================================================================
